---- MODULE Spec2Model ----
(***************************************************************************)
(* Model of the two workflow scripts of the repository:                    *)
(*   scripts/git_check_in.py   check-in flow; safe_checkout is its         *)
(*                             dirty-worktree recovery controller          *)
(*   scripts/git_check_in1.py  release-tag flow                            *)
(* Text (operator input, porcelain lines, version strings) is a sequence   *)
(* of one-character strings, so that strip(), lower(), slicing and the     *)
(* regular expression are computed character by character.                 *)
(* The git backend is external: a command's effect is the documented       *)
(* effect of the exact command line the script issues, and whatever the    *)
(* script cannot know (does a checkout succeed, is the remote reachable)   *)
(* is a nondeterministic choice.                                           *)
(***************************************************************************)
EXTENDS Integers, Sequences, FiniteSets, TLC

\* ------------------------------------------------------------ bounds
\* Number of paths the working tree may report.
MaxFiles == 2
\* Number of operator inputs safe_checkout may read before the operator
\* is out of answers (the menu loop itself is unbounded).
MaxInputs == 4
\* Longest version string drawn from the small alphabet.
MaxVerLen == 6

\* ------------------------------------------------------------ text
\* The i-th letter used to build distinct path names.
Chr(i) == <<"a", "b", "c", "d", "e", "f">>[i]

Whitespace == {" ", "\t", "\n"}

RECURSIVE lstrip(_)
lstrip(s) ==
    IF s # <<>> /\ Head(s) \in Whitespace THEN lstrip(Tail(s)) ELSE s

RECURSIVE rstrip(_)
rstrip(s) ==
    IF s # <<>> /\ s[Len(s)] \in Whitespace
    THEN rstrip(SubSeq(s, 1, Len(s) - 1))
    ELSE s

\* str.strip(): leading and trailing whitespace removed.
strip(s) == rstrip(lstrip(s))

lowerChar(c) ==
    CASE c = "Y" -> "y"
      [] c = "E" -> "e"
      [] c = "S" -> "s"
      [] c = "N" -> "n"
      [] c = "D" -> "d"
      [] c = "M" -> "m"
      [] c = "A" -> "a"
      [] c = "I" -> "i"
      [] OTHER -> c

\* str.lower()
lower(s) == [i \in 1..Len(s) |-> lowerChar(s[i])]

\* ------------------------------------------------------------ porcelain
\* One entry of the working tree status: index state x, worktree state y,
\* the path, and for a rename the original path (<<>> otherwise).
Entry(x, y, orig, path) == [x |-> x, y |-> y, orig |-> orig, path |-> path]

\* The line `git status --porcelain` prints for an entry:
\*   XY PATH          or, for a rename,     XY ORIG -> PATH
PorcelainLine(e) ==
    <<e.x, e.y, " ">>
      \o (IF e.orig = <<>> THEN <<>> ELSE e.orig \o <<" ", "-", ">", " ">>)
      \o e.path

\* stdout.splitlines() of `git status --porcelain` for a working tree.
Porcelain(tree) == [i \in 1..Len(tree) |-> PorcelainLine(tree[i])]

\* line[0:2] and line[3:] of Python, on 1-based sequences.
StatusOf(line) == SubSeq(line, 1, 2)
PathOf(line) == SubSeq(line, 4, Len(line))

HasD(status) == \E i \in 1..Len(status) : status[i] = "D"

RECURSIVE FilterChanged(_)
FilterChanged(lines) ==
    IF lines = <<>> THEN <<>>
    ELSE IF HasD(StatusOf(Head(lines)))
         THEN FilterChanged(Tail(lines))
         ELSE <<PathOf(Head(lines))>> \o FilterChanged(Tail(lines))

\* list_changed_files(): the paths of the porcelain lines whose status has
\* no "D".
list_changed_files(lines) == FilterChanged(lines)

\* ------------------------------------------------------------ semver
Digits == {"0", "1", "2", "3", "4", "5", "6", "7", "8", "9"}

\* The positions at which one component  (0|[1-9]\d*)  can end when it
\* starts at position i of v; a position is the index of the next unread
\* character.
Component(v, i) ==
    IF i > Len(v) THEN {}
    ELSE IF v[i] = "0" THEN {i + 1}
    ELSE IF v[i] \in Digits
         THEN {j \in (i + 1)..(Len(v) + 1) :
                  \A k \in (i + 1)..(j - 1) : v[k] \in Digits}
         ELSE {}

\* A literal dot at position i.
Dot(v, i) == i <= Len(v) /\ v[i] = "."

\* `$` without re.MULTILINE: the end of the string, or just before a
\* newline that is the last character of the string.
AtDollar(v, i) ==
    \/ i = Len(v) + 1
    \/ i = Len(v) /\ v[i] = "\n"

\* validate_semver(version):
\*   re.match(r"^(0|[1-9]\d*)\.(0|[1-9]\d*)\.(0|[1-9]\d*)$", version)
validate_semver(v) ==
    \E e1 \in Component(v, 1) :
        /\ Dot(v, e1)
        /\ \E e2 \in Component(v, e1 + 1) :
              /\ Dot(v, e2)
              /\ \E e3 \in Component(v, e2 + 1) : AtDollar(v, e3)

\* ------------------------------------------------------------ state
VARIABLES
    pc,               \* position of the running script
    branch,           \* repository: the checked-out branch (HEAD)
    tree,             \* repository: working tree status, a sequence of entries
    stash,            \* repository: stash list, newest first, each a set of paths
    history,          \* repository: number of merges/commits made on HEAD
    gitignore,        \* the lines of .gitignore
    gitignoreTracked, \* whether .gitignore is a tracked file
    blockers,         \* repository: dirty paths the target branch would overwrite
    cmds,             \* the git command lines issued (and the ignore-list writes
                      \* attempted) so far, in order
    prompts,          \* number of operator inputs read so far
    typed,            \* the last confirmation line, as the operator typed it
    stash_result,     \* safe_checkout: returncode of the last stash-push
    branch_name,      \* safe_checkout: parameter
    create_new,       \* safe_checkout: parameter
    result,           \* safe_checkout: returncode and stderr of the first checkout
    changed_files,    \* safe_checkout: list computed when blocked
    choice,           \* safe_checkout: last menu choice, stripped
    confirm,          \* safe_checkout: last confirmation, stripped
    ret,              \* safe_checkout: return value
    exitcode,         \* process exit status, -1 while running
    mark,             \* Len(cmds) when the last menu choice was read
    version,          \* release: --version
    force,            \* release: --force
    args_develop,     \* release: --develop, the integration branch
    tag_local,        \* repository: what the release tag names locally
    tag_remote,       \* remote: what the release tag names there
    pre,              \* repository state when the script started
    caller,           \* main: where safe_checkout returns to ("none": called alone)
    entered,          \* main: the last branch-name line, as the operator typed it
    desired_branch,   \* main: the accepted branch name
    final_branch,     \* main: the branch the commit is meant for
    pushed_branch     \* module-level global: the branch that was pushed

vars == <<pc, branch, tree, stash, history, gitignore, gitignoreTracked,
          blockers, cmds, prompts, typed, stash_result, branch_name, create_new, result,
          changed_files, choice, confirm, ret, exitcode, mark, version, force,
          args_develop, tag_local, tag_remote, pre, caller, entered,
          desired_branch, final_branch, pushed_branch>>

mainVars == <<caller, entered, desired_branch, final_branch, pushed_branch>>

repoVars == <<branch, tree, stash, history, gitignore>>
releaseVars == <<version, force, args_develop, tag_local, tag_remote>>
checkoutVars == <<stash, gitignore, gitignoreTracked, blockers, prompts, typed, stash_result,
                  branch_name, create_new, result, changed_files, choice,
                  confirm, ret, mark, mainVars>>

Branches == {"develop", "feature"}

\* ------------------------------------------------------------ working trees
PathName(i) == IF i = 1 THEN <<"D">> ELSE <<Chr(i)>>
OrigName(i) == <<"o", Chr(i)>>

\* Status codes a path may have: modified in the worktree, untracked,
\* deleted in the worktree, renamed in the index.
EntriesFor(i) ==
    { Entry(" ", "M", <<>>, PathName(i)),
      Entry("?", "?", <<>>, PathName(i)),
      Entry(" ", "D", <<>>, PathName(i)),
      Entry("R", " ", OrigName(i), PathName(i)) }

RECURSIVE TreesUpTo(_)
TreesUpTo(n) ==
    IF n = 0 THEN {<<>>}
    ELSE {t \o e : t \in TreesUpTo(n - 1),
                   e \in {<<>>} \cup {<<x>> : x \in EntriesFor(n)}}

Trees == TreesUpTo(MaxFiles)

Range(s) == {s[i] : i \in 1..Len(s)}
PathsOf(t) == {t[i].path : i \in 1..Len(t)}

Tracked(e) == ~(e.x = "?" /\ e.y = "?")
IsUntracked(e) == ~Tracked(e)

\* The paths an entry's change touches.
Touched(e) == {e.path} \cup (IF e.orig = <<>> THEN {} ELSE {e.orig})

\* ------------------------------------------------------------ backend
\* `git stash push -m ...` (no --include-untracked): every tracked change,
\* deletions included, goes into one new stash entry and is reverted in the
\* tree; untracked files stay. With no tracked change no entry is made.
StashedPaths(t) == UNION {Touched(t[i]) : i \in {j \in 1..Len(t) : Tracked(t[j])}}
StashAfterPush(t, st) == IF StashedPaths(t) = {} THEN st ELSE <<StashedPaths(t)>> \o st
TreeAfterStash(t) == SelectSeq(t, IsUntracked)

\* `git reset --hard HEAD`: every tracked change is reverted.
TreeAfterReset(t) == SelectSeq(t, IsUntracked)

\* `git clean -fd` (no -x): untracked files are removed unless ignored.
TreeAfterClean(t, ignored) ==
    LET Keep(e) == Tracked(e) \/ e.path \in ignored IN SelectSeq(t, Keep)

\* What `git status --porcelain` lists: ignored untracked files are hidden.
Visible(t, ignored) ==
    LET Shown(e) == Tracked(e) \/ e.path \notin ignored IN SelectSeq(t, Shown)

\* The command line of safe_checkout's checkout.
CheckoutCmd(name, new) ==
    IF new THEN <<"git", "checkout", "-b", name>> ELSE <<"git", "checkout", name>>

StatusCmd == <<"git", "status", "--porcelain">>
StashCmd == <<"git", "stash", "push", "-m", "Auto-stash by check-in script">>
ResetCmd == <<"git", "reset", "--hard", "HEAD">>
CleanCmd == <<"git", "clean", "-fd">>
RevParseHeadCmd == <<"git", "rev-parse", "--abbrev-ref", "HEAD">>
PullDevelopCmd == <<"git", "pull", "origin", "develop">>

\* What a failed checkout may print on stderr, named by the part that
\* matters. The first two are the substrings safe_checkout looks for
\* (line 111).
Diagnostics == {"would be overwritten", "Please commit your changes or stash them",
                "did not match any", "already exists"}
IsDirtyDiagnostic(stderr) ==
    \/ stderr = "would be overwritten"
    \/ stderr = "Please commit your changes or stash them"

\* Non-zero exit statuses of git: 1 for an error, 128 for a fatal one.
FailCodes == {1, 128}

\* A checkout can be blocked by local changes only when it has to rewrite
\* the working tree: not for -b (the new branch starts at HEAD) and not for
\* the branch that is already checked out.
CanBlock == ~create_new /\ branch_name # branch /\ tree # <<>>

\* The retried checkout succeeds once no blocking path is left dirty.
RetryOk(t) == blockers \cap PathsOf(t) = {}

\* What git prints when the paths B of the working tree t block a checkout:
\* for local changes to tracked files both substrings of line 111, for
\* untracked files only "would be overwritten". The diagnostic is named by
\* the substring that tells the two apart.
BlockedDiagnosticOf(t, B) ==
    IF \E i \in 1..Len(t) : t[i].path \in B /\ Tracked(t[i])
    THEN "Please commit your changes or stash them"
    ELSE "would be overwritten"

\* ------------------------------------------------------------ operator input
\* Lines the operator may type at "Enter your choice (1-4): ".
ChoiceInputs == { <<"1">>, <<"2">>, <<"3">>, <<"4">>, <<" ", "4">>, <<"5">>, <<>> }
\* Lines the operator may type at "Type 'YES' in all caps to confirm: ".
ConfirmInputs == { <<"Y", "E", "S">>, <<" ", "Y", "E", "S">>, <<"y", "e", "s">>,
                   <<"Y", "e", "s">>, <<"y">>, <<>> }
\* Lines the operator may type at a [y/N] question.
AnswerInputs == { <<"y">>, <<"Y">>, <<" ", "y">>, <<"n">>, <<>> }

\* ------------------------------------------------------------ safe_checkout
BlockedDiagnostic(B) == BlockedDiagnosticOf(tree, B)

fixedVars == <<branch_name, create_new, gitignoreTracked, pre, releaseVars, mainVars>>

\* sys.exit(code): the interpreter runs the registered exit handler next.
Exit(code) ==
    /\ pc' = "atexit"
    /\ exitcode' = code

\* Faulty variant of FirstTrySucceeded: the changed files are listed before returning.
FirstTrySucceededListsFiles ==
    /\ result' = [returncode |-> 0, stderr |-> ""]
    /\ cmds' = cmds \o <<CheckoutCmd(branch_name, create_new), StatusCmd>>
    /\ branch' = branch_name
    /\ ret' = "True"
    /\ pc' = "returned"
    /\ UNCHANGED <<tree, stash, history, gitignore, blockers, prompts, typed, stash_result,
                   changed_files, choice, confirm, exitcode, mark>>

\* Line 107-109: the first checkout reported success.
FirstTrySucceeded ==
    /\ result' = [returncode |-> 0, stderr |-> ""]
    /\ cmds' = Append(cmds, CheckoutCmd(branch_name, create_new))
    /\ branch' = branch_name
    /\ ret' = "True"
    /\ pc' = "returned"
    /\ UNCHANGED <<tree, stash, history, gitignore, blockers, prompts, typed, stash_result,
                   changed_files, choice, confirm, exitcode, mark>>

\* Line 111-129: the diagnostic names the dirty worktree; the changed files
\* are listed (run() exits with git's status if `git status` fails) and the
\* four choices are shown.
FirstTryBlocked ==
    /\ CanBlock
    /\ \E B \in (SUBSET PathsOf(tree)) \ {{}} :
          /\ IsDirtyDiagnostic(BlockedDiagnostic(B))
          /\ result' = [returncode |-> 1, stderr |-> BlockedDiagnostic(B)]
          /\ blockers' = B
    /\ cmds' = cmds \o <<CheckoutCmd(branch_name, create_new), StatusCmd>>
    /\ \/ /\ changed_files' = list_changed_files(Porcelain(tree))
          /\ pc' = "menu"
          /\ UNCHANGED exitcode
       \/ /\ \E rc \in FailCodes : Exit(rc)
          /\ UNCHANGED changed_files
    /\ UNCHANGED <<branch, tree, stash, history, gitignore, prompts, typed, stash_result,
                   choice, confirm, ret, mark>>

\* Line 206-209: any other failure is fatal.
FirstTryFatal ==
    /\ \E d \in Diagnostics, rc \in FailCodes :
          /\ ~IsDirtyDiagnostic(d)
          /\ result' = [returncode |-> rc, stderr |-> d]
    /\ cmds' = Append(cmds, CheckoutCmd(branch_name, create_new))
    /\ Exit(1)
    /\ UNCHANGED <<branch, tree, stash, history, gitignore, blockers, prompts,
                   typed, stash_result, changed_files, choice, confirm, ret, mark>>

\* safe_checkout up to its first return, exit or prompt (lines 102-129).
Attempting ==
    /\ pc = "start"
    /\ \/ FirstTrySucceeded
       \/ FirstTryBlocked
       \/ FirstTryFatal
    /\ UNCHANGED fixedVars

\* Line 132: choice = input(...).strip()
ReadChoice(raw) ==
    /\ prompts' = prompts + 1
    /\ choice' = strip(raw)
    /\ mark' = Len(cmds)

\* Faulty variant of ChooseCommit: the checkout is retried before returning.
ChooseCommitRetries ==
    /\ pc = "menu" /\ prompts < MaxInputs
    /\ \E raw \in ChoiceInputs : strip(raw) = <<"1">> /\ ReadChoice(raw)
    /\ cmds' = Append(cmds, CheckoutCmd(branch_name, create_new))
    /\ ret' = "skip_checkout"
    /\ pc' = "returned"
    /\ UNCHANGED <<branch, tree, stash, history, gitignore, blockers,
                   typed, stash_result, result, changed_files, confirm, exitcode>>
    /\ UNCHANGED fixedVars

\* Line 134-137: commit these files.
ChooseCommit ==
    /\ pc = "menu" /\ prompts < MaxInputs
    /\ \E raw \in ChoiceInputs : strip(raw) = <<"1">> /\ ReadChoice(raw)
    /\ ret' = "skip_checkout"
    /\ pc' = "returned"
    /\ UNCHANGED <<branch, tree, stash, history, gitignore, blockers, cmds,
                   typed, stash_result, result, changed_files, confirm, exitcode>>
    /\ UNCHANGED fixedVars

\* Line 147-158: the stash succeeded; the checkout is retried once.
StashSucceeded ==
    /\ stash_result' = [returncode |-> 0]
    /\ tree' = TreeAfterStash(tree)
    /\ stash' = StashAfterPush(tree, stash)
    /\ cmds' = cmds \o <<StashCmd, CheckoutCmd(branch_name, create_new)>>
    /\ IF RetryOk(TreeAfterStash(tree))
       THEN /\ branch' = branch_name
            /\ ret' = "True"
            /\ pc' = "returned"
            /\ UNCHANGED exitcode
       ELSE /\ Exit(1)
            /\ UNCHANGED <<branch, ret>>

\* Faulty variant of StashFailed: the checkout is retried after a failed stash.
StashFailedRetries ==
    /\ \E rc \in FailCodes : stash_result' = [returncode |-> rc]
    /\ cmds' = cmds \o <<StashCmd, CheckoutCmd(branch_name, create_new)>>
    /\ pc' = "menu"
    /\ UNCHANGED <<branch, tree, stash, ret, exitcode>>

\* Faulty variant of StashFailed: a failed stash ends the process.
StashFailedExits ==
    /\ \E rc \in FailCodes : stash_result' = [returncode |-> rc] /\ Exit(rc)
    /\ cmds' = Append(cmds, StashCmd)
    /\ UNCHANGED <<branch, tree, stash, ret>>

\* Line 159-163: the stash failed; back to the prompt.
StashFailed ==
    /\ \E rc \in FailCodes : stash_result' = [returncode |-> rc]
    /\ cmds' = Append(cmds, StashCmd)
    /\ pc' = "menu"
    /\ UNCHANGED <<branch, tree, stash, ret, exitcode>>

\* Line 139-163: stash these changes.
ChooseStash ==
    /\ pc = "menu" /\ prompts < MaxInputs
    /\ \E raw \in ChoiceInputs : strip(raw) = <<"2">> /\ ReadChoice(raw)
    /\ \/ StashSucceeded
       \/ StashFailed
    /\ UNCHANGED <<history, gitignore, blockers, typed, result, changed_files,
                   confirm>>
    /\ UNCHANGED fixedVars

\* Line 165-168: destructive discard chosen; the confirmation is asked next.
ChooseDiscard ==
    /\ pc = "menu" /\ prompts < MaxInputs
    /\ \E raw \in ChoiceInputs : strip(raw) = <<"3">> /\ ReadChoice(raw)
    /\ pc' = "confirm"
    /\ UNCHANGED <<branch, tree, stash, history, gitignore, blockers, cmds,
                   typed, stash_result, result, changed_files, confirm, ret, exitcode>>
    /\ UNCHANGED fixedVars

\* Faulty variant of ChooseAbort: the changes are stashed before the exit.
ChooseAbortStashes ==
    /\ pc = "menu" /\ prompts < MaxInputs
    /\ \E raw \in ChoiceInputs : strip(raw) = <<"4">> /\ ReadChoice(raw)
    /\ Exit(0)
    /\ cmds' = Append(cmds, StashCmd)
    /\ tree' = TreeAfterStash(tree)
    /\ stash' = StashAfterPush(tree, stash)
    /\ UNCHANGED <<branch, history, gitignore, blockers,
                   typed, stash_result, result, changed_files, confirm, ret>>
    /\ UNCHANGED fixedVars

\* Line 199-201: abort.
ChooseAbort ==
    /\ pc = "menu" /\ prompts < MaxInputs
    /\ \E raw \in ChoiceInputs : strip(raw) = <<"4">> /\ ReadChoice(raw)
    /\ Exit(0)
    /\ UNCHANGED <<branch, tree, stash, history, gitignore, blockers, cmds,
                   typed, stash_result, result, changed_files, confirm, ret>>
    /\ UNCHANGED fixedVars

\* Faulty variant of ChooseInvalid: the loop goes round without reading input.
ChooseInvalidReadsNothing ==
    /\ pc = "menu" /\ prompts < MaxInputs
    /\ \E raw \in ChoiceInputs :
          /\ strip(raw) \notin {<<"1">>, <<"2">>, <<"3">>, <<"4">>}
          /\ choice' = strip(raw)
    /\ pc' = "menu"
    /\ UNCHANGED <<branch, tree, stash, history, gitignore, blockers, cmds,
                   typed, stash_result, result, changed_files, confirm, ret,
                   exitcode, prompts, mark>>
    /\ UNCHANGED fixedVars

\* Line 203-204: anything else prompts again.
ChooseInvalid ==
    /\ pc = "menu" /\ prompts < MaxInputs
    /\ \E raw \in ChoiceInputs :
          /\ strip(raw) \notin {<<"1">>, <<"2">>, <<"3">>, <<"4">>}
          /\ ReadChoice(raw)
    /\ pc' = "menu"
    /\ UNCHANGED <<branch, tree, stash, history, gitignore, blockers, cmds,
                   typed, stash_result, result, changed_files, confirm, ret, exitcode>>
    /\ UNCHANGED fixedVars

\* Faulty variant of Confirmed: the comparison ignores case.
ConfirmedAnyCase(c) == lower(c) = <<"y", "e", "s">>

\* Line 170: confirm == "YES"
Confirmed(c) == c = <<"Y", "E", "S">>

\* Line 168-170, 195-197: the confirmation is read; anything but YES goes
\* back to the choice prompt.
Confirming ==
    /\ pc = "confirm" /\ prompts < MaxInputs
    /\ \E raw \in ConfirmInputs :
          /\ typed' = raw
          /\ confirm' = strip(raw)
          /\ pc' = IF Confirmed(strip(raw)) THEN "add_ignore" ELSE "menu"
    /\ prompts' = prompts + 1
    /\ UNCHANGED <<stash_result, branch, tree, stash, history, gitignore, blockers, cmds,
                   result, changed_files, choice, ret, exitcode, mark>>
    /\ UNCHANGED fixedVars

\* Line 176-178: the header comment and one line per changed file.
IgnoreHeader == <<"#", " ", "A", "u", "t", "o">>
IgnoreLines(files) == <<IgnoreHeader>> \o files

\* Line 174-181: open(".gitignore", "a") and the writes, which either
\* complete or raise (the exception is caught and reported as a warning).
IgnoreWrite(written) ==
    <<"open", ".gitignore", "a", IF written THEN "written" ELSE "raised">>

\* Faulty variant of Discard: an ignore list that cannot be written stops the
\* discard.
DiscardStopsOnWriteError(wants, written, reset, clean) ==
    LET g1 == IF written THEN gitignore \o IgnoreLines(changed_files) ELSE gitignore
        t2 == IF reset THEN TreeAfterReset(tree) ELSE tree
        g2 == IF reset /\ gitignoreTracked THEN gitignore ELSE g1
        t3 == IF clean THEN TreeAfterClean(t2, Range(g2)) ELSE t2
        g3 == IF clean /\ ~gitignoreTracked THEN <<>> ELSE g2
        t4 == Visible(t3, Range(g3))
    IN  IF wants /\ ~written
        THEN /\ cmds' = Append(cmds, IgnoreWrite(FALSE))
             /\ Exit(1)
             /\ UNCHANGED <<gitignore, tree, branch, ret>>
        ELSE /\ gitignore' = g3
             /\ tree' = t4
             /\ cmds' = cmds \o (IF wants THEN <<IgnoreWrite(written)>> ELSE <<>>)
                             \o <<ResetCmd, CleanCmd, CheckoutCmd(branch_name, create_new)>>
             /\ IF RetryOk(t4)
                THEN /\ branch' = branch_name
                     /\ ret' = "True"
                     /\ pc' = "returned"
                     /\ UNCHANGED exitcode
                ELSE /\ Exit(1)
                     /\ UNCHANGED <<branch, ret>>

\* Line 171-194: the ignore list is offered, the changes are discarded and
\* the checkout is retried once. `wants`: the operator opted in and there
\* are files to list; `written`: the ignore list was appended to; `reset`,
\* `clean`: the command did its work (both are run with check=False and a
\* failure is not looked at).
Discard(wants, written, reset, clean) ==
    LET g1 == IF written THEN gitignore \o IgnoreLines(changed_files) ELSE gitignore
        t2 == IF reset THEN TreeAfterReset(tree) ELSE tree
        \* a tracked .gitignore is reverted with every other tracked file
        g2 == IF reset /\ gitignoreTracked THEN gitignore ELSE g1
        t3 == IF clean THEN TreeAfterClean(t2, Range(g2)) ELSE t2
        \* an untracked .gitignore is removed with the other untracked files
        g3 == IF clean /\ ~gitignoreTracked THEN <<>> ELSE g2
        t4 == Visible(t3, Range(g3))
    IN  /\ gitignore' = g3
        /\ tree' = t4
        /\ cmds' = cmds \o (IF wants THEN <<IgnoreWrite(written)>> ELSE <<>>)
                        \o <<ResetCmd, CleanCmd, CheckoutCmd(branch_name, create_new)>>
        /\ IF RetryOk(t4)
           THEN /\ branch' = branch_name
                /\ ret' = "True"
                /\ pc' = "returned"
                /\ UNCHANGED exitcode
           ELSE /\ Exit(1)
                /\ UNCHANGED <<branch, ret>>

\* Line 173: add_ignore == "y" and changed_files
WantsIgnore(add_ignore) == add_ignore = <<"y">> /\ changed_files # <<>>

Discarding ==
    /\ pc = "add_ignore" /\ prompts < MaxInputs
    /\ \E raw \in AnswerInputs :
          /\ \E written \in (IF WantsIgnore(lower(strip(raw))) THEN BOOLEAN ELSE {FALSE}),
                reset \in BOOLEAN, clean \in BOOLEAN :
                Discard(WantsIgnore(lower(strip(raw))), written, reset, clean)
    /\ prompts' = prompts + 1
    /\ UNCHANGED <<stash, history, blockers, typed, stash_result, result, changed_files,
                   choice, confirm, mark>>
    /\ UNCHANGED fixedVars

\* ------------------------------------------------------------ exit handler
\* Whether the handler's `git checkout develop` can succeed: not when that
\* same checkout was just refused and the blocking paths are still dirty.
HandlerCheckoutResults ==
    IF branch_name = "develop" /\ ~create_new /\ ~RetryOk(tree)
    THEN {FALSE} ELSE BOOLEAN

\* cleanup_and_return_to_develop(), registered with atexit: runs on every
\* exit of the interpreter. `git pull origin develop` merges into whatever
\* branch is checked out; `merged` says whether it brought new commits.
cleanup_and_return_to_develop ==
    /\ pc = "atexit"
    /\ \E switched \in (IF branch # "develop" THEN HandlerCheckoutResults ELSE {FALSE}),
          merged \in BOOLEAN :
          /\ branch' = IF switched THEN "develop" ELSE branch
          /\ history' = IF merged THEN history + 1 ELSE history
    /\ cmds' = cmds \o <<RevParseHeadCmd>>
                    \o (IF branch # "develop" THEN <<CheckoutCmd("develop", FALSE)>> ELSE <<>>)
                    \o <<PullDevelopCmd>>
    /\ pc' = "done"
    /\ UNCHANGED <<tree, stash, gitignore, blockers, prompts, typed, stash_result, result,
                   changed_files, choice, confirm, ret, exitcode, mark>>
    /\ UNCHANGED fixedVars

\* ------------------------------------------------------------ specification
NoResult == [returncode |-> -1, stderr |-> ""]
NoStashResult == [returncode |-> -1]

\* The variables of main() while it has not run.
NoMain ==
    /\ caller = "none"
    /\ entered = <<>>
    /\ desired_branch = ""
    /\ final_branch = ""
    /\ pushed_branch = "None"

\* The release flow's variables while the check-in script runs.
NoRelease ==
    /\ version = <<>>
    /\ force = FALSE
    /\ args_develop = "develop"
    /\ tag_local = "none"
    /\ tag_remote = "none"

\* One call of safe_checkout from any repository state, for any target.
Init ==
    /\ pc = "start"
    /\ NoRelease
    /\ branch \in Branches
    /\ tree \in Trees
    /\ stash = <<>>
    /\ history = 0
    /\ gitignore = <<>>
    /\ gitignoreTracked \in BOOLEAN
    /\ blockers = {}
    /\ cmds = <<>>
    /\ prompts = 0
    /\ typed = <<>>
    /\ stash_result = NoStashResult
    /\ NoMain
    /\ branch_name \in Branches
    /\ create_new \in BOOLEAN
    /\ result = NoResult
    /\ changed_files = <<>>
    /\ choice = <<>>
    /\ confirm = <<>>
    /\ ret = "None"
    /\ exitcode = -1
    /\ mark = 0
    /\ pre = [branch |-> branch, tree |-> tree, stash |-> stash, history |-> history]

Next ==
    \/ Attempting
    \/ ChooseCommit
    \/ ChooseStash
    \/ ChooseDiscard
    \/ ChooseAbort
    \/ ChooseInvalid
    \/ Confirming
    \/ Discarding
    \/ cleanup_and_return_to_develop

Spec == Init /\ [][Next]_vars

\* ------------------------------------------------------------ release flow
\* scripts/git_check_in1.py. The tag {prefix}{version} is written TAG in
\* the command lines; tag_local and tag_remote say which tag object that
\* name points to: "none", "old" (the one that existed before the run) or
\* "new" (the one this run created). Tags change only through the tag
\* commands and the tag pushes.
VerAlphabet == {"0", "1", ".", "\n"}

RECURSIVE StringsOfLen(_)
StringsOfLen(n) ==
    IF n = 0 THEN {<<>>}
    ELSE {Append(s, c) : s \in StringsOfLen(n - 1), c \in VerAlphabet}

VersionExamples ==
    { <<"1", ".", "2", ".", "3">>,
      <<"0", ".", "0", ".", "0">>,
      <<"1", ".", "2">>,
      <<"v", "1", ".", "2", ".", "3">>,
      <<"1", ".", "2", ".", "3", "-", "r", "c", "1">>,
      <<"0", "1", ".", "2", ".", "3">>,
      <<"1", "0", ".", "2", "0", ".", "3", "0">> }

\* Values of --version.
Versions == VersionExamples \cup UNION {StringsOfLen(n) : n \in 0..MaxVerLen}

\* Working trees the release flow may start from: clean, or one entry.
ReleaseTrees == TreesUpTo(1)

InsideCmd == <<"git", "rev-parse", "--is-inside-work-tree">>
FetchCmd == <<"git", "fetch", "origin", args_develop>>
PullCmd == <<"git", "pull", "origin", args_develop>>
VerifyTagCmd == <<"git", "rev-parse", "-q", "--verify", "refs/tags/TAG">>
TagDeleteCmd == <<"git", "tag", "-d", "TAG">>
PushDeleteCmd == <<"git", "push", "origin", ":refs/tags/TAG">>
TagCreateCmd == <<"git", "tag", "-a", "TAG", "-m", "MSG">>
PushTagCmd == <<"git", "push", "origin", "TAG">>

\* sys.exit(code) of the release script, which registers no exit handler.
ReleaseExit(code) ==
    /\ pc' = "r_done"
    /\ exitcode' = code

\* Line 55-59: the version is validated before anything else.
Validate ==
    /\ pc = "r_validate"
    /\ IF validate_semver(version)
       THEN pc' = "r_repo" /\ UNCHANGED exitcode
       ELSE ReleaseExit(1)
    /\ UNCHANGED <<branch, tree, history, cmds, releaseVars, checkoutVars, pre>>

\* Faulty variant of WorktreeDirty: the status output is not looked at.
WorktreeDirtyIgnored(lines) == FALSE

\* Line 29: (r.stdout or "").strip() is not empty.
WorktreeDirty(lines) == \E i \in 1..Len(lines) : strip(lines[i]) # <<>>

\* Line 61-69: inside a repository, on the integration branch, with a clean
\* working tree. Each git call is made with check=True: its failure ends
\* the run with git's status.
CheckRepository ==
    /\ pc = "r_repo"
    /\ \/ /\ cmds' = cmds \o <<InsideCmd>>
          /\ \E rc \in FailCodes : ReleaseExit(rc)
       \/ /\ cmds' = cmds \o <<InsideCmd, RevParseHeadCmd>>
          /\ \/ \E rc \in FailCodes : ReleaseExit(rc)
             \/ branch # args_develop /\ ReleaseExit(1)
       \/ /\ branch = args_develop
          /\ cmds' = cmds \o <<InsideCmd, RevParseHeadCmd, StatusCmd>>
          /\ \/ \E rc \in FailCodes : ReleaseExit(rc)
             \/ WorktreeDirty(Porcelain(tree)) /\ ReleaseExit(1)
             \/ /\ ~WorktreeDirty(Porcelain(tree))
                /\ pc' = "r_update"
                /\ UNCHANGED exitcode
    /\ UNCHANGED <<branch, tree, history, releaseVars, checkoutVars, pre>>

\* Line 71-73: fetch, then pull; the pull may bring new commits.
UpdateDevelop ==
    /\ pc = "r_update"
    /\ \/ /\ cmds' = cmds \o <<FetchCmd>>
          /\ \E rc \in FailCodes : ReleaseExit(rc)
          /\ UNCHANGED history
       \/ /\ cmds' = cmds \o <<FetchCmd, PullCmd>>
          /\ \/ /\ \E rc \in FailCodes : ReleaseExit(rc)
                /\ UNCHANGED history
             \/ /\ \E merged \in BOOLEAN :
                      history' = IF merged THEN history + 1 ELSE history
                /\ pc' = "r_tag"
                /\ UNCHANGED exitcode
    /\ UNCHANGED <<branch, tree, releaseVars, checkoutVars, pre>>

\* Faulty variant of tag_exists: the return code is read the wrong way round.
tag_existsInverted(t) == t = "none"

\* Line 36-38: `git rev-parse -q --verify refs/tags/<tag>` returned 0.
tag_exists(t) == t # "none"

\* Faulty variant of DeleteExistingTag: the remote tag is left alone.
DeleteLocalTagOnly(local_ok, remote_ok) ==
    /\ tag_local' = IF local_ok THEN "none" ELSE tag_local
    /\ tag_remote' = tag_remote
    /\ cmds' = cmds \o <<VerifyTagCmd, TagDeleteCmd>>

\* Line 79-81: delete the tag locally, then on the remote; both calls are
\* made with check=False and either may have failed.
DeleteExistingTag(local_ok, remote_ok) ==
    /\ tag_local' = IF local_ok THEN "none" ELSE tag_local
    /\ tag_remote' = IF remote_ok THEN "none" ELSE tag_remote
    /\ cmds' = cmds \o <<VerifyTagCmd, TagDeleteCmd, PushDeleteCmd>>

\* Line 75-81: an existing tag stops the run unless --force.
CheckTag ==
    /\ pc = "r_tag"
    /\ IF tag_exists(tag_local)
       THEN IF ~force
            THEN /\ ReleaseExit(1)
                 /\ cmds' = Append(cmds, VerifyTagCmd)
                 /\ UNCHANGED <<tag_local, tag_remote>>
            ELSE /\ \E local_ok \in BOOLEAN, remote_ok \in BOOLEAN :
                       DeleteExistingTag(local_ok, remote_ok)
                 /\ pc' = "r_create"
                 /\ UNCHANGED exitcode
       ELSE /\ cmds' = Append(cmds, VerifyTagCmd)
            /\ pc' = "r_create"
            /\ UNCHANGED <<exitcode, tag_local, tag_remote>>
    /\ UNCHANGED <<branch, tree, history, version, force, args_develop,
                   checkoutVars, pre>>

\* Line 83: `git tag -a` (check=True) fails when the name is taken, and may
\* fail for other reasons.
CreateTag ==
    /\ pc = "r_create"
    /\ cmds' = Append(cmds, TagCreateCmd)
    /\ \/ /\ \E rc \in FailCodes : ReleaseExit(rc)
          /\ UNCHANGED tag_local
       \/ /\ tag_local = "none"
          /\ tag_local' = "new"
          /\ pc' = "r_push"
          /\ UNCHANGED exitcode
    /\ UNCHANGED <<branch, tree, history, version, force, args_develop,
                   tag_remote, checkoutVars, pre>>

\* Line 84-86: `git push <remote> <tag>` (check=True) is rejected when the
\* remote has another tag of that name, and may fail for other reasons;
\* after it the script prints OK and ends.
PushTag ==
    /\ pc = "r_push"
    /\ cmds' = Append(cmds, PushTagCmd)
    /\ \/ /\ \E rc \in FailCodes : ReleaseExit(rc)
          /\ UNCHANGED tag_remote
       \/ /\ tag_remote \in {"none", tag_local}
          /\ tag_remote' = tag_local
          /\ ReleaseExit(0)
    /\ UNCHANGED <<branch, tree, history, version, force, args_develop,
                   tag_local, checkoutVars, pre>>

\* The check-in script's variables while the release script runs.
NoCheckout ==
    /\ stash = <<>>
    /\ gitignore = <<>>
    /\ gitignoreTracked = FALSE
    /\ blockers = {}
    /\ prompts = 0
    /\ typed = <<>>
    /\ stash_result = NoStashResult
    /\ NoMain
    /\ branch_name = "develop"
    /\ create_new = FALSE
    /\ result = NoResult
    /\ changed_files = <<>>
    /\ choice = <<>>
    /\ confirm = <<>>
    /\ ret = "None"
    /\ mark = 0

\* One run of the release script, for any repository state and flags and
\* the versions the specification names.
InitRelease ==
    /\ pc = "r_validate"
    /\ version \in VersionExamples
    /\ force \in BOOLEAN
    /\ args_develop \in {"develop", "main"}
    /\ branch \in Branches
    /\ tree \in ReleaseTrees
    /\ tag_local \in {"none", "old"}
    /\ tag_remote \in {"none", "old"}
    /\ history = 0
    /\ cmds = <<>>
    /\ exitcode = -1
    /\ NoCheckout
    /\ pre = [branch |-> branch, tree |-> tree, stash |-> stash, history |-> history,
              tag_local |-> tag_local, tag_remote |-> tag_remote]

NextRelease ==
    \/ Validate
    \/ CheckRepository
    \/ UpdateDevelop
    \/ CheckTag
    \/ CreateTag
    \/ PushTag

SpecRelease == InitRelease /\ [][NextRelease]_vars

\* One run of the release script from a clean integration branch, for
\* every --version up to the length bound.
InitVersions ==
    /\ pc = "r_validate"
    /\ version \in Versions
    /\ force \in BOOLEAN
    /\ args_develop = "develop"
    /\ branch = "develop"
    /\ tree = <<>>
    /\ tag_local \in {"none", "old"}
    /\ tag_remote = "none"
    /\ history = 0
    /\ cmds = <<>>
    /\ exitcode = -1
    /\ NoCheckout
    /\ pre = [branch |-> branch, tree |-> tree, stash |-> stash, history |-> history,
              tag_local |-> tag_local, tag_remote |-> tag_remote]

SpecVersions == InitVersions /\ [][NextRelease]_vars

\* ------------------------------------------------------------ status listings
\* Every kind of porcelain entry for the i-th path: the two-letter codes
\* with and without a D on either side, untracked, unmerged, renamed.
AllEntriesFor(i) ==
    { Entry(c[1], c[2], <<>>, PathName(i)) :
        c \in { <<" ", "M">>, <<"M", " ">>, <<"A", " ">>, <<"?", "?">>,
                <<" ", "D">>, <<"D", " ">>, <<"M", "D">>, <<"A", "D">>,
                <<"U", "U">>, <<"D", "D">> } }
      \cup { Entry("R", " ", OrigName(i), PathName(i)),
             Entry("R", "D", OrigName(i), PathName(i)) }

RECURSIVE ListingsUpTo(_)
ListingsUpTo(n) ==
    IF n = 0 THEN {<<>>}
    ELSE {t \o e : t \in ListingsUpTo(n - 1),
                   e \in {<<>>} \cup {<<x>> : x \in AllEntriesFor(n)}}

\* Line 64-74: list_changed_files() called on its own: `git status
\* --porcelain` through run() (check=True), then the loop over its lines.
ListChangedFiles ==
    /\ pc = "s_start"
    /\ cmds' = Append(cmds, StatusCmd)
    /\ \/ /\ changed_files' = list_changed_files(Porcelain(tree))
          /\ pc' = "s_listed"
          /\ UNCHANGED exitcode
       \/ /\ \E rc \in FailCodes : Exit(rc)
          /\ UNCHANGED changed_files
    /\ UNCHANGED <<branch, tree, stash, history, gitignore, blockers, prompts,
                   typed, stash_result, result, choice, confirm, ret, mark>>
    /\ UNCHANGED fixedVars

\* list_changed_files() on every status listing up to the bound.
InitStatus ==
    /\ pc = "s_start"
    /\ NoRelease
    /\ branch \in Branches
    /\ tree \in ListingsUpTo(MaxFiles)
    /\ stash = <<>>
    /\ history = 0
    /\ gitignore = <<>>
    /\ gitignoreTracked = FALSE
    /\ blockers = {}
    /\ cmds = <<>>
    /\ prompts = 0
    /\ typed = <<>>
    /\ stash_result = NoStashResult
    /\ NoMain
    /\ branch_name = "develop"
    /\ create_new = FALSE
    /\ result = NoResult
    /\ changed_files = <<>>
    /\ choice = <<>>
    /\ confirm = <<>>
    /\ ret = "None"
    /\ exitcode = -1
    /\ mark = 0
    /\ pre = [branch |-> branch, tree |-> tree, stash |-> stash, history |-> history]

NextStatus ==
    \/ ListChangedFiles
    \/ cleanup_and_return_to_develop

SpecStatus == InitStatus /\ [][NextStatus]_vars

\* ------------------------------------------------------------ check-in flow
\* main() of scripts/git_check_in.py. A branch is named by a string in the
\* repository state and in the command lines; what the operator types is
\* text, and BranchText gives the characters of a name.
BranchText(n) ==
    CASE n = "develop" -> <<"d", "e", "v", "e", "l", "o", "p">>
      [] n = "Develop" -> <<"D", "e", "v", "e", "l", "o", "p">>
      [] n = "main" -> <<"m", "a", "i", "n">>
      [] n = "MAIN" -> <<"M", "A", "I", "N">>
      [] n = "master" -> <<"m", "a", "s", "t", "e", "r">>
      [] n = "feature" -> <<"f", "e", "a", "t", "u", "r", "e">>
      [] n = "feature_1" -> <<"f", "e", "a", "t", "u", "r", "e", "_", "1">>
      [] n = "feature_2" -> <<"f", "e", "a", "t", "u", "r", "e", "_", "2">>
      [] n = "topic" -> <<"t", "o", "p", "i", "c">>

BranchNames == {"develop", "Develop", "main", "MAIN", "master", "feature",
                "feature_1", "feature_2", "topic"}

\* The branch whose name is the text t.
NameOf(t) == CHOOSE n \in BranchNames : BranchText(n) = t

\* Faulty variant of IsProtected: the comparison is case-sensitive.
IsProtectedExactCase(t) ==
    t \in {BranchText("develop"), BranchText("main"), BranchText("master")}

\* Line 391, 459: name.lower() in ["develop", "main", "master"]
IsProtected(t) ==
    lower(t) \in {BranchText("develop"), BranchText("main"), BranchText("master")}

\* The local branches of the repository when the script starts.
LocalBranches == {"develop", "MAIN", "feature"}

\* Line 211-214: branch_exists(branch_name)
branch_exists(n) == n \in LocalBranches

\* f"{base_name}_{i}"
Candidate(base, i) == NameOf(BranchText(base) \o <<"_", <<"1", "2">>[i]>>)

\* Line 216-225: make_unique_branch_name(base_name)
make_unique_branch_name(base) ==
    IF ~branch_exists(base) THEN base
    ELSE IF ~branch_exists(Candidate(base, 1)) THEN Candidate(base, 1)
    ELSE Candidate(base, 2)

\* Line 56-62: has_merge_conflicts() on the lines of the status output.
has_merge_conflicts(lines) ==
    \E i \in 1..Len(lines) :
        StatusOf(lines[i]) \in {<<"U", "U">>, <<"A", "A">>, <<"D", "D">>}

\* Lines the operator may type at "Enter branch name".
NameInputs ==
    { BranchText("feature"), <<" ">> \o BranchText("topic"),
      BranchText("Develop"), BranchText("MAIN") \o <<" ">>, <<>> }

FetchDevelopCmd == <<"git", "fetch", "origin", "develop">>
DiffDevelopCmd == <<"git", "diff", "--quiet", "origin/develop", "HEAD">>
MergeBaseCmd(n) == <<"git", "merge-base", "--is-ancestor", "develop", n>>
BranchListCmd(n) == <<"git", "branch", "--list", n>>
MergeDevelopCmd == <<"git", "merge", "develop">>
AddCmd(files) == <<"git", "add">> \o files
CommitCmd == <<"git", "commit", "-m", "MSG">>
PushCmd(n) == <<"git", "push", "-u", "origin", n>>

\* A call of safe_checkout(name, create_new=new) that returns to `back`:
\* the locals of the call start afresh.
Call(name, new, back) ==
    /\ branch_name' = name
    /\ create_new' = new
    /\ caller' = back
    /\ pc' = "start"
    /\ result' = NoResult
    /\ stash_result' = NoStashResult
    /\ changed_files' = <<>>
    /\ choice' = <<>>
    /\ confirm' = <<>>
    /\ typed' = <<>>
    /\ ret' = "None"
    /\ blockers' = {}
    /\ mark' = Len(cmds')

\* The locals of safe_checkout, left alone between two calls.
callVars == <<branch_name, create_new, caller, result, stash_result, changed_files,
              choice, confirm, typed, ret, blockers, mark>>

\* safe_checkout has returned to the position `back` of main.
ReturnedTo(back) == pc = "returned" /\ caller = back

\* Line 350-370: the repository is checked, the run ends when there is
\* nothing to check in, and develop is checked out. `differs`: HEAD differs
\* from origin/develop. A git query that fails under check=True ends the
\* run with git's status (modelled for the first query).
CheckForChanges ==
    /\ pc = "m_start"
    /\ \/ /\ cmds' = Append(cmds, InsideCmd)
          /\ \E rc \in FailCodes : Exit(rc)
          /\ UNCHANGED callVars
       \/ /\ tree # <<>>
          /\ cmds' = cmds \o <<InsideCmd, RevParseHeadCmd, StatusCmd>>
          /\ Call("develop", FALSE, "m_develop")
          /\ UNCHANGED exitcode
       \/ /\ tree = <<>>
          /\ \E differs \in BOOLEAN :
                IF differs
                THEN /\ cmds' = cmds \o <<InsideCmd, RevParseHeadCmd, StatusCmd,
                                           RevParseHeadCmd, FetchDevelopCmd,
                                           DiffDevelopCmd>>
                     /\ Call("develop", FALSE, "m_develop")
                     /\ UNCHANGED exitcode
                ELSE /\ cmds' = cmds \o <<InsideCmd, RevParseHeadCmd, StatusCmd,
                                           RevParseHeadCmd, FetchDevelopCmd,
                                           DiffDevelopCmd>>
                     /\ Exit(0)
                     /\ UNCHANGED callVars
    /\ UNCHANGED <<branch, tree, stash, history, gitignore, gitignoreTracked,
                   prompts, pre, releaseVars, entered, desired_branch,
                   final_branch, pushed_branch>>

\* Line 372-379: unless the operator keeps the changes in place, develop is
\* pulled; conflicts in the status end the run.
UpdateDevelopBranch ==
    /\ ReturnedTo("m_develop")
    /\ IF ret = "skip_checkout"
       THEN /\ pc' = "m_name"
            /\ UNCHANGED <<cmds, history, exitcode>>
       ELSE \/ /\ cmds' = Append(cmds, PullDevelopCmd)
               /\ \E rc \in FailCodes : Exit(rc)
               /\ UNCHANGED history
            \/ /\ cmds' = cmds \o <<PullDevelopCmd, StatusCmd>>
               /\ \E merged \in BOOLEAN :
                     history' = IF merged THEN history + 1 ELSE history
               /\ IF has_merge_conflicts(Porcelain(tree))
                  THEN Exit(1)
                  ELSE pc' = "m_name" /\ UNCHANGED exitcode
    /\ UNCHANGED <<branch, tree, stash, gitignore, gitignoreTracked, prompts, pre,
                   releaseVars, callVars, entered, desired_branch, final_branch,
                   pushed_branch>>

\* Line 384-395: the branch name is asked for until it is neither empty
\* nor protected.
ReadBranchName ==
    /\ pc = "m_name"
    /\ \E raw \in NameInputs :
          /\ entered' = raw
          /\ IF strip(raw) = <<>> \/ IsProtected(strip(raw))
             THEN pc' = "m_name" /\ UNCHANGED desired_branch
             ELSE pc' = "m_select" /\ desired_branch' = NameOf(strip(raw))
    /\ UNCHANGED <<branch, tree, stash, history, gitignore, gitignoreTracked,
                   cmds, prompts, exitcode, pre, releaseVars, callVars,
                   final_branch, pushed_branch>>

\* The branch queries make_unique_branch_name(base) issues.
UniqueQueries(base) ==
    <<BranchListCmd(base)>>
      \o (IF branch_exists(base) THEN <<BranchListCmd(Candidate(base, 1))>> ELSE <<>>)
      \o (IF branch_exists(base) /\ branch_exists(Candidate(base, 1))
          THEN <<BranchListCmd(Candidate(base, 2))>> ELSE <<>>)

\* Line 397-430: an existing branch is updated or a new name is made
\* unique; a new branch is created with -b.
SelectBranch ==
    /\ pc = "m_select"
    /\ LET queries == <<RevParseHeadCmd>>
                        \o (IF branch = desired_branch THEN <<>>
                            ELSE <<BranchListCmd(desired_branch)>>)
       IN  IF branch = desired_branch \/ branch_exists(desired_branch)
           THEN \E raw \in AnswerInputs :
                  IF lower(strip(raw)) = <<"y">>
                  THEN /\ final_branch' = desired_branch
                       /\ cmds' = cmds \o queries
                       /\ IF branch # desired_branch
                          THEN Call(desired_branch, FALSE, "m_sync")
                          ELSE pc' = "m_sync" /\ UNCHANGED callVars
                  ELSE /\ final_branch' = make_unique_branch_name(desired_branch)
                       /\ cmds' = cmds \o queries \o UniqueQueries(desired_branch)
                       /\ Call(make_unique_branch_name(desired_branch), TRUE, "m_stage")
           ELSE /\ final_branch' = desired_branch
                /\ cmds' = cmds \o queries
                /\ Call(desired_branch, TRUE, "m_stage")
    /\ UNCHANGED <<branch, tree, stash, history, gitignore, gitignoreTracked,
                   prompts, exitcode, pre, releaseVars, entered, desired_branch,
                   pushed_branch>>

\* Line 416-419, 237-247: a branch that is behind develop is synced; the
\* sync checks the branch out when it is not the current one. The value
\* safe_checkout returned at line 414 is not looked at.
SyncBranch ==
    /\ pc = "m_sync" \/ ReturnedTo("m_sync")
    /\ \E uptodate \in BOOLEAN :
          IF uptodate
          THEN /\ cmds' = Append(cmds, MergeBaseCmd(desired_branch))
               /\ pc' = "m_stage"
               /\ UNCHANGED callVars
          ELSE /\ cmds' = cmds \o <<MergeBaseCmd(desired_branch), RevParseHeadCmd>>
               /\ IF branch # desired_branch
                  THEN Call(desired_branch, FALSE, "m_merge")
                  ELSE pc' = "m_merge" /\ UNCHANGED callVars
    /\ UNCHANGED <<branch, tree, stash, history, gitignore, gitignoreTracked,
                   prompts, exitcode, pre, releaseVars, entered, desired_branch,
                   final_branch, pushed_branch>>

\* Line 245-265: develop is merged unless the checkout was skipped; a
\* merge that fails ends the run with status 1.
MergeDevelop ==
    /\ pc = "m_merge" \/ ReturnedTo("m_merge")
    /\ IF pc = "returned" /\ ret = "skip_checkout"
       THEN /\ pc' = "m_stage"
            /\ UNCHANGED <<cmds, history, exitcode>>
       ELSE \/ /\ cmds' = Append(cmds, MergeDevelopCmd)
               /\ \E merged \in BOOLEAN :
                     history' = IF merged THEN history + 1 ELSE history
               /\ pc' = "m_stage"
               /\ UNCHANGED exitcode
            \/ /\ cmds' = cmds \o <<MergeDevelopCmd, StatusCmd>>
               /\ Exit(1)
               /\ UNCHANGED history
    /\ UNCHANGED <<branch, tree, stash, gitignore, gitignoreTracked, prompts, pre,
                   releaseVars, callVars, entered, desired_branch, final_branch,
                   pushed_branch>>

\* `git add <files>`: the named paths are staged.
Staged(e, files) ==
    IF e.path \notin Range(files) THEN e
    ELSE IF IsUntracked(e) THEN Entry("A", " ", <<>>, e.path)
    ELSE Entry("M", " ", <<>>, e.path)

TreeAfterAdd(t, files) == [i \in 1..Len(t) |-> Staged(t[i], files)]

\* `git commit`: what is staged leaves the status.
TreeAfterCommit(t) ==
    LET Unstaged(e) == e.x \in {" ", "?"} IN SelectSeq(t, Unstaged)

\* `git add` refuses a path that names no file of the working tree.
AddOk(t, files) == \A i \in 1..Len(files) : files[i] \in PathsOf(t)

\* Line 432-453: the changed files are listed, staged on request and
\* committed with the message the operator composed.
StageAndCommit ==
    /\ pc = "m_stage" \/ ReturnedTo("m_stage")
    /\ LET files == list_changed_files(Porcelain(tree))
       IN  IF files = <<>>
           THEN /\ cmds' = Append(cmds, StatusCmd)
                /\ Exit(0)
                /\ UNCHANGED <<tree, history>>
           ELSE \E raw \in AnswerInputs :
                  IF lower(strip(raw)) # <<"y">>
                  THEN /\ cmds' = Append(cmds, StatusCmd)
                       /\ Exit(0)
                       /\ UNCHANGED <<tree, history>>
                  ELSE IF ~AddOk(tree, files)
                  THEN /\ cmds' = cmds \o <<StatusCmd, AddCmd(files)>>
                       /\ Exit(128)
                       /\ UNCHANGED <<tree, history>>
                  ELSE \/ /\ cmds' = cmds \o <<StatusCmd, AddCmd(files), CommitCmd>>
                          /\ tree' = TreeAfterAdd(tree, files)
                          /\ \E rc \in FailCodes : Exit(rc)
                          /\ UNCHANGED history
                       \/ /\ cmds' = cmds \o <<StatusCmd, AddCmd(files), CommitCmd>>
                          /\ tree' = TreeAfterCommit(TreeAfterAdd(tree, files))
                          /\ history' = history + 1
                          /\ pc' = "m_push"
                          /\ UNCHANGED exitcode
    /\ UNCHANGED <<branch, stash, gitignore, gitignoreTracked, prompts, pre,
                   releaseVars, callVars, entered, desired_branch, final_branch,
                   pushed_branch>>

\* Line 455-480: a protected branch is never pushed; otherwise the branch
\* is pushed on request and main() returns.
Push ==
    /\ pc = "m_push"
    /\ IF IsProtected(BranchText(branch))
       THEN /\ cmds' = Append(cmds, RevParseHeadCmd)
            /\ Exit(1)
            /\ UNCHANGED pushed_branch
       ELSE \E raw \in AnswerInputs :
              IF lower(strip(raw)) # <<"y">>
              THEN /\ cmds' = Append(cmds, RevParseHeadCmd)
                   /\ Exit(0)
                   /\ UNCHANGED pushed_branch
              ELSE \/ /\ cmds' = cmds \o <<RevParseHeadCmd, PushCmd(branch)>>
                      /\ \E rc \in FailCodes : Exit(rc)
                      /\ UNCHANGED pushed_branch
                   \/ /\ cmds' = cmds \o <<RevParseHeadCmd, PushCmd(branch)>>
                      /\ pushed_branch' = branch
                      /\ Exit(0)
    /\ UNCHANGED <<branch, tree, stash, history, gitignore, gitignoreTracked,
                   prompts, pre, releaseVars, callVars, entered, desired_branch,
                   final_branch>>

\* Working trees the check-in flow may start from.
CheckInTrees == TreesUpTo(1)

\* One run of the check-in script from any branch and working tree.
InitCheckIn ==
    /\ pc = "m_start"
    /\ NoRelease
    /\ branch \in LocalBranches
    /\ tree \in CheckInTrees
    /\ stash = <<>>
    /\ history = 0
    /\ gitignore = <<>>
    /\ gitignoreTracked \in BOOLEAN
    /\ blockers = {}
    /\ cmds = <<>>
    /\ prompts = 0
    /\ typed = <<>>
    /\ stash_result = NoStashResult
    /\ NoMain
    /\ branch_name = "develop"
    /\ create_new = FALSE
    /\ result = NoResult
    /\ changed_files = <<>>
    /\ choice = <<>>
    /\ confirm = <<>>
    /\ ret = "None"
    /\ exitcode = -1
    /\ mark = 0
    /\ pre = [branch |-> branch, tree |-> tree, stash |-> stash, history |-> history]

NextCheckIn ==
    \/ CheckForChanges
    \/ Attempting
    \/ ChooseCommit
    \/ ChooseStash
    \/ ChooseDiscard
    \/ ChooseAbort
    \/ ChooseInvalid
    \/ Confirming
    \/ Discarding
    \/ UpdateDevelopBranch
    \/ ReadBranchName
    \/ SelectBranch
    \/ SyncBranch
    \/ MergeDevelop
    \/ StageAndCommit
    \/ Push
    \/ cleanup_and_return_to_develop

SpecCheckIn == InitCheckIn /\ [][NextCheckIn]_vars

\* ------------------------------------------------------------ the answering operator
\* The operator who, as long as the controller is blocked, has an answer
\* left that ends the episode: the controller is never left at a prompt
\* with fewer answers to come than the shortest way out needs (one at the
\* choice prompt and at the ignore-list question, two at the confirmation).
OperatorCanFinish ==
    /\ pc' = "menu" => prompts' < MaxInputs
    /\ pc' = "add_ignore" => prompts' < MaxInputs
    /\ pc' = "confirm" => prompts' + 1 < MaxInputs

NextOperator ==
    \/ Attempting /\ OperatorCanFinish
    \/ ChooseCommit /\ OperatorCanFinish
    \/ ChooseStash /\ OperatorCanFinish
    \/ ChooseDiscard /\ OperatorCanFinish
    \/ ChooseAbort /\ OperatorCanFinish
    \/ ChooseInvalid /\ OperatorCanFinish
    \/ Confirming /\ OperatorCanFinish
    \/ Discarding /\ OperatorCanFinish
    \/ cleanup_and_return_to_develop /\ OperatorCanFinish

\* Working trees of the episodes followed to their end.
OperatorTrees == TreesUpTo(1)

InitOperator == Init /\ tree \in OperatorTrees

\* Every read blocks until the operator answers, and the process runs on
\* as soon as it has the answer: a step that can be taken is taken.
SpecOperator == InitOperator /\ [][NextOperator]_vars /\ WF_vars(NextOperator)

\* ------------------------------------------------------------ claims: safe_checkout
YES == <<"Y", "E", "S">>

Issued(c) == \E i \in 1..Len(cmds) : cmds[i] = c

\* The git subcommands that change the working tree, the stash list or
\* the commit history.
TreeChanging(c) ==
    c[2] \in {"checkout", "stash", "reset", "clean", "pull", "merge", "commit"}

Aborted == pc = "done" /\ choice = <<"4">>

\* C1: after the operator chose abort the process has ended with status 0
\* and the working tree, the stash list and the commit history are what they
\* were before the checkout attempt, no tree-changing command having been
\* issued after the choice, the exit handler's commands included.
C1_AbortLeavesRepositoryUntouched ==
    Aborted =>
        /\ exitcode = 0
        /\ tree = pre.tree
        /\ stash = pre.stash
        /\ history = pre.history
        /\ \A i \in (mark + 1)..Len(cmds) : ~TreeChanging(cmds[i])

DiscardIssued == Issued(ResetCmd) \/ Issued(CleanCmd)

\* C2 as stated: reset/clean are issued only after choice 3 and a
\* confirmation line that is literally YES, and after any other
\* confirmation line the controller is not about to discard.
C2_DiscardOnlyAfterLiteralYes ==
    /\ DiscardIssued => choice = <<"3">> /\ typed = YES
    /\ pc = "add_ignore" => typed = YES

ConfirmationRead == pc = "confirm" /\ prompts' = prompts + 1

\* C2 as amended: reset/clean are issued only after choice 3 and a
\* confirmation line that, stripped of surrounding whitespace, is YES
\* (case-sensitive); a step that reads any other confirmation line returns
\* to the choice prompt and changes neither the repository nor the ignore
\* list nor the command log.
C2_DiscardOnlyAfterStrippedYes ==
    /\ [](DiscardIssued => choice = <<"3">> /\ strip(typed) = YES)
    /\ [](pc = "add_ignore" => choice = <<"3">> /\ strip(typed) = YES)
    /\ [][ConfirmationRead /\ strip(typed') # YES =>
             pc' = "menu" /\ UNCHANGED <<cmds, repoVars>>]_vars

\* C2's case: a discard was issued, the operator having typed YES after
\* a space.
C2_Witness == DiscardIssued /\ typed = <<" ", "Y", "E", "S">> /\ pc = "returned"

\* C3: once the operator has chosen 1, safe_checkout has returned
\* "skip_checkout" and no command was issued after the choice: the command
\* log ends where it ended when the choice was read, and the repository is
\* as it was before the attempt.
C3_CommitInPlaceIssuesNothing ==
    choice = <<"1">> =>
        /\ pc = "returned"
        /\ ret = "skip_checkout"
        /\ exitcode = -1
        /\ Len(cmds) = mark
        /\ branch = pre.branch /\ tree = pre.tree /\ stash = pre.stash

\* C3's case: commit-in-place chosen with several changed files, after a
\* failed stash in the same episode.
C3_Witness ==
    /\ ret = "skip_checkout"
    /\ Len(changed_files) >= 2
    /\ Issued(StashCmd)

\* C4: when the first checkout reported success, safe_checkout has returned
\* True on the target branch, has read no operator input and has issued
\* that one checkout command and nothing else.
C4_FirstTrySuccessReturnsAtOnce ==
    result.returncode = 0 =>
        /\ pc = "returned"
        /\ ret = "True"
        /\ prompts = 0
        /\ cmds = <<CheckoutCmd(branch_name, create_new)>>
        /\ branch = branch_name

\* C4's case: a first-try success with -b on a dirty tree.
C4_Witness == result.returncode = 0 /\ create_new /\ Len(tree) >= 2 /\ pc = "returned"

StashAndRetrySucceeded == pc = "returned" /\ choice = <<"2">> /\ ret = "True"

\* C5: after a successful stash and a successful retry the target branch
\* is checked out and the one new stash entry holds exactly the paths that
\* list_changed_files reported when the controller became blocked.
C5_StashHoldsReportedFiles ==
    StashAndRetrySucceeded =>
        /\ branch = branch_name
        /\ Len(stash) = Len(pre.stash) + 1
        /\ Head(stash) = Range(changed_files)

\* ------------------------------------------------------------ claims: release flow
TagCommands == {TagDeleteCmd, PushDeleteCmd, TagCreateCmd, PushTagCmd}

\* The tag commands issued so far, in order.
TagCommandsIssued == SelectSeq(cmds, LAMBDA c : c \in TagCommands)

TagsUntouched == tag_local = pre.tag_local /\ tag_remote = pre.tag_remote

\* C6: in a run without --force in which the tag already exists, no tag
\* command is ever issued, the tag is what it was locally and on the remote,
\* and the run, once ended, has ended with a non-zero status.
C6_ExistingTagWithoutForceIsRefused ==
    (pre.tag_local # "none" /\ ~force) =>
        /\ TagCommandsIssued = <<>>
        /\ TagsUntouched
        /\ pc = "r_done" => exitcode # 0

\* C6's case: the run got as far as looking the tag up, found it and ended.
C6_Witness ==
    /\ pc = "r_done"
    /\ pre.tag_local = "old" /\ ~force
    /\ Issued(VerifyTagCmd)
    /\ exitcode = 1

UpdateOrTagCommands == TagCommands \cup {FetchCmd, PullCmd}

\* C7: in a run started on another branch than the integration branch, or
\* with a working tree that is not clean, no fetch, pull, tag or push
\* command is ever issued, and the run, once ended, has ended with a
\* non-zero status.
C7_RefusesWrongBranchOrDirtyTree ==
    (pre.branch # args_develop \/ pre.tree # <<>>) =>
        /\ \A i \in 1..Len(cmds) : cmds[i] \notin UpdateOrTagCommands
        /\ pc = "r_done" => exitcode # 0

\* C7's case: on the integration branch with an untracked file, the run
\* ended after it had read the status.
C7_Witness ==
    /\ pc = "r_done"
    /\ pre.branch = args_develop
    /\ pre.tree # <<>> /\ IsUntracked(pre.tree[1])
    /\ Issued(StatusCmd)
    /\ exitcode = 1

\* C8: a run that ended with status 0 started on the integration branch
\* with a clean tree and either (a) found no tag and issued exactly
\* `git tag -a` then the push of the tag, or (b) found the tag, was given
\* --force and issued the local delete, the remote delete, `git tag -a` and
\* the push, in that order; in both cases the tag created by this run is
\* the one the name points to locally and on the remote.
C8_SuccessfulRunCreatesAndPushesOneTag ==
    (pc = "r_done" /\ exitcode = 0) =>
        /\ pre.branch = args_develop /\ pre.tree = <<>>
        /\ tag_local = "new" /\ tag_remote = "new"
        /\ IF pre.tag_local = "none"
           THEN TagCommandsIssued = <<TagCreateCmd, PushTagCmd>>
           ELSE /\ force
                /\ TagCommandsIssued =
                      <<TagDeleteCmd, PushDeleteCmd, TagCreateCmd, PushTagCmd>>

\* C8's case: a forced run replaced a tag that existed locally and on the
\* remote.
C8_Witness ==
    /\ pc = "r_done" /\ exitcode = 0
    /\ force
    /\ pre.tag_local = "old" /\ pre.tag_remote = "old"
    /\ version = <<"1", ".", "2", ".", "3">>

\* C8's other case is reached too: a first release of the version.
C8_FirstReleaseReached ==
    pc = "r_done" /\ exitcode = 0 /\ pre.tag_local = "none" /\ ~force

\* The positions of the dots of v.
DotsOf(v) == {i \in 1..Len(v) : v[i] = "."}

\* A non-negative decimal integer without leading zeros.
IsPlainNumber(s) ==
    /\ s # <<>>
    /\ \A i \in 1..Len(s) : s[i] \in Digits
    /\ Len(s) > 1 => s[1] # "0"

\* MAJOR.MINOR.PATCH and nothing else, as the claim words it.
IsStrictSemVer(v) ==
    /\ Cardinality(DotsOf(v)) = 2
    /\ LET d1 == CHOOSE i \in DotsOf(v) : \A j \in DotsOf(v) : i <= j
           d2 == CHOOSE i \in DotsOf(v) : \A j \in DotsOf(v) : j <= i
       IN  /\ IsPlainNumber(SubSeq(v, 1, d1 - 1))
           /\ IsPlainNumber(SubSeq(v, d1 + 1, d2 - 1))
           /\ IsPlainNumber(SubSeq(v, d2 + 1, Len(v)))

\* The run ended at the version check: no git command was issued.
VersionRejected == pc = "r_done" /\ cmds = <<>>

\* C9: once the version has been checked, it was rejected exactly when it
\* is not of the form MAJOR.MINOR.PATCH, and a rejected version ended the
\* run with a non-zero status before any git command.
C9_AcceptsExactlyStrictSemVer ==
    pc # "r_validate" =>
        /\ VersionRejected <=> ~IsStrictSemVer(version)
        /\ VersionRejected => exitcode # 0

\* ------------------------------------------------------------ claims: status listings
CodeHasD(e) == e.x = "D" \/ e.y = "D"
NoD(e) == ~CodeHasD(e)

\* The paths of the entries of t, in listing order.
PathsInOrder(t) == [i \in 1..Len(t) |-> t[i].path]

\* C10: the list returned for a status listing holds no path of an entry
\* whose code has a D on either side, and holds the path of every other
\* entry, in listing order.
C10_ListIsTheNonDeletedPathsInOrder ==
    pc = "s_listed" =>
        /\ \A i \in 1..Len(tree) :
              CodeHasD(tree[i]) => tree[i].path \notin Range(changed_files)
        /\ changed_files = PathsInOrder(SelectSeq(tree, NoD))

\* ------------------------------------------------------------ claims: recovery loop
\* The commands issued before the exit handler started: the handler's first
\* command is the rev-parse of HEAD, which safe_checkout never issues.
HandlerStart ==
    IF Issued(RevParseHeadCmd)
    THEN CHOOSE i \in 1..Len(cmds) :
            /\ cmds[i] = RevParseHeadCmd
            /\ \A j \in 1..(i - 1) : cmds[j] # RevParseHeadCmd
    ELSE Len(cmds) + 1

\* How often safe_checkout has issued its checkout command.
NumCheckouts ==
    Cardinality({i \in 1..(HandlerStart - 1) :
                    cmds[i] = CheckoutCmd(branch_name, create_new)})

RetryIssued ==
    /\ pc \in {"menu", "add_ignore"}
    /\ Len(cmds') > Len(cmds)
    /\ cmds'[Len(cmds')] = CheckoutCmd(branch_name, create_new)

AfterSuccessfulStash ==
    /\ pc = "menu" /\ choice' = <<"2">>
    /\ cmds' = cmds \o <<StashCmd, CheckoutCmd(branch_name, create_new)>>
    /\ tree' = TreeAfterStash(tree)
    /\ stash' = StashAfterPush(tree, stash)

AfterConfirmedDiscard ==
    /\ pc = "add_ignore" /\ choice = <<"3">> /\ confirm = YES
    /\ Len(cmds') >= Len(cmds) + 3
    /\ SubSeq(cmds', Len(cmds') - 2, Len(cmds')) =
          <<ResetCmd, CleanCmd, CheckoutCmd(branch_name, create_new)>>

\* C11: safe_checkout issues its checkout command at most twice; the second
\* one is issued only in the step of a successful stash or of a confirmed
\* discard; after it the function has returned True or the process is
\* exiting with a non-zero status, never back at the menu.
C11_AtMostOneRetryThenFatal ==
    /\ [](NumCheckouts <= 2)
    /\ [](NumCheckouts = 2 =>
            /\ pc \in {"returned", "atexit", "done"}
            /\ pc = "returned" => ret = "True" /\ exitcode = -1
            /\ pc # "returned" => exitcode > 0)
    /\ [][RetryIssued =>
            /\ AfterSuccessfulStash \/ AfterConfirmedDiscard
            /\ pc' \in {"returned", "atexit"}]_vars

\* C11's case: a stash failed, a second stash succeeded, the one retry
\* failed and the process ended with status 1.
C11_Witness ==
    /\ pc = "done" /\ exitcode = 1
    /\ choice = <<"2">>
    /\ NumCheckouts = 2
    /\ Len(SelectSeq(cmds, LAMBDA c : c = StashCmd)) = 2

\* The first checkout failed with a diagnostic that names no dirty worktree.
FatalFailure == result.returncode > 0 /\ ~IsDirtyDiagnostic(result.stderr)

\* C12: after a checkout failure whose diagnostic matches neither
\* substring the process is ending, no operator input was read, the
\* controller issued no command after the checkout, and the exit code is
\* the exit status the checkout returned.
C12_FatalExitMirrorsBackendStatus ==
    FatalFailure =>
        /\ pc \in {"atexit", "done"}
        /\ prompts = 0
        /\ SubSeq(cmds, 1, HandlerStart - 1) = <<CheckoutCmd(branch_name, create_new)>>
        /\ exitcode = result.returncode

DiscardCmds == {ResetCmd, CleanCmd}

\* C13: every stash-push in the command log was issued after the operator's
\* most recent choice and that choice is 2; every reset or clean was issued
\* after the most recent choice, that choice is 3 and it was confirmed; so
\* none is issued before a choice was read (first-try success, fatal
\* failure) or after choice 1, choice 4 or an invalid choice.
C13_StashAndDiscardOnlyOnTheChosenPath ==
    /\ \A i \in 1..mark : cmds[i] \notin DiscardCmds
    /\ \A i \in (mark + 1)..Len(cmds) :
          /\ cmds[i] = StashCmd => choice = <<"2">>
          /\ cmds[i] \in DiscardCmds => choice = <<"3">> /\ confirm = YES
    /\ prompts = 0 => \A i \in 1..Len(cmds) : cmds[i] \notin DiscardCmds \cup {StashCmd}
    /\ (result.returncode = 0 \/ FatalFailure) => prompts = 0

\* C13's case: in one episode a stash was tried and failed, then the
\* operator chose 3, confirmed, and the discard was issued.
C13_Witness ==
    /\ pc = "returned"
    /\ choice = <<"3">>
    /\ Issued(StashCmd) /\ Issued(ResetCmd) /\ Issued(CleanCmd)

\* A step in which choice 2 is read and the stash-push fails.
StashFailedStep ==
    /\ pc = "menu"
    /\ prompts' = prompts + 1
    /\ choice' = <<"2">>
    /\ stash_result'.returncode # 0

\* Back at the choice prompt after a failed stash, with input left to read.
BlockedAfterFailedStash ==
    /\ pc = "menu"
    /\ choice = <<"2">> /\ stash_result.returncode > 0
    /\ prompts < MaxInputs

\* C14: a step in which the stash-push fails issues that one command and
\* no checkout, leaves the process running and the repository unchanged and
\* ends at the choice prompt, where each of the four choices, stash
\* included, can be taken next.
C14_FailedStashReturnsToBlocked ==
    /\ [][StashFailedStep =>
            /\ pc' = "menu"
            /\ exitcode' = -1
            /\ cmds' = Append(cmds, StashCmd)
            /\ UNCHANGED <<repoVars, ret>>]_vars
    /\ [](BlockedAfterFailedStash =>
            /\ ENABLED ChooseCommit
            /\ ENABLED ChooseStash
            /\ ENABLED ChooseDiscard
            /\ ENABLED ChooseAbort)

\* C14's case: the stash failed twice in a row and the controller is at
\* the choice prompt again.
C14_Witness ==
    /\ BlockedAfterFailedStash
    /\ cmds = <<CheckoutCmd(branch_name, create_new), StatusCmd, StashCmd, StashCmd>>

\* Every stash-push in the command log is followed by a later status
\* command: the list in hand was computed after the last stash attempt.
ListComputedAfterLastAttempt ==
    \A i \in 1..Len(cmds) :
        cmds[i] \in DiscardCmds \cup {StashCmd} =>
            \E j \in (i + 1)..Len(cmds) : cmds[j] = StatusCmd

\* The controller is blocked: the list may be shown or written next.
InBlocked == pc \in {"menu", "confirm", "add_ignore"}

\* C15: while the controller is blocked, the changed-files list it holds
\* is the list of the backend's current status and was computed by a status
\* command issued after the last stash or discard attempt.
C15_ChangedFilesNeverReusedAcrossAnAttempt ==
    InBlocked =>
        /\ changed_files = list_changed_files(Porcelain(tree))
        /\ ListComputedAfterLastAttempt

\* The step that follows the confirmation: the answer to the ignore-list
\* question is read and the discard is carried out.
DiscardStep == pc = "add_ignore" /\ prompts' = prompts + 1

DiscardSequence == <<ResetCmd, CleanCmd, CheckoutCmd(branch_name, create_new)>>

\* C16: the confirmed discard issues, in this order, at most one ignore-list
\* write, the hard reset, the clean and one checkout, and nothing else; the
\* reset, the clean and the checkout are issued also when the write raised;
\* after the step safe_checkout has returned or the process is exiting.
C16_DiscardOrderWriteResetCleanRetry ==
    [][DiscardStep =>
          /\ \/ cmds' = cmds \o DiscardSequence
             \/ cmds' = cmds \o <<IgnoreWrite(TRUE)>> \o DiscardSequence
             \/ cmds' = cmds \o <<IgnoreWrite(FALSE)>> \o DiscardSequence
          /\ pc' \in {"returned", "atexit"}]_vars

\* C16's case: the ignore list could not be written, the discard went on
\* and the retried checkout succeeded.
C16_Witness ==
    /\ pc = "returned" /\ choice = <<"3">>
    /\ Issued(IgnoreWrite(FALSE))
    /\ cmds[Len(cmds)] = CheckoutCmd(branch_name, create_new)
    /\ cmds[Len(cmds) - 1] = CleanCmd
    /\ cmds[Len(cmds) - 2] = ResetCmd
    /\ cmds[Len(cmds) - 3] = IgnoreWrite(FALSE)

\* The discard has been carried out after a successful ignore-list write.
DiscardedAfterWrite ==
    /\ pc \in {"returned", "atexit", "done"}
    /\ Issued(IgnoreWrite(TRUE))
    /\ Issued(CleanCmd)

\* C17: once the discard that followed a successful ignore-list write is
\* over (reset, clean and retry issued), every path of the changed-files
\* list is a line of the ignore-list file.
C17_IgnoreLinesSurviveTheDiscard ==
    DiscardedAfterWrite =>
        \A i \in 1..Len(changed_files) : changed_files[i] \in Range(gitignore)

\* ------------------------------------------------------------ claims: check-in flow
\* The branch names of the model that are develop, main or master in some
\* spelling of upper and lower case.
ProtectedBranches == {"develop", "Develop", "main", "MAIN", "master"}

IsPush(c) == Len(c) >= 2 /\ c[1] = "git" /\ c[2] = "push"

PushIssued == \E i \in 1..Len(cmds) : IsPush(cmds[i])

\* The text of a protected name, possibly between blanks.
ProtectedLine(raw) == \E n \in ProtectedBranches : strip(raw) = BranchText(n)

\* C18: no push names a protected branch and the accepted branch name is
\* never protected; the step taken at push time on a protected branch
\* ends the run with a non-zero status without a push; the step that reads
\* a protected name as the desired branch name asks again and accepts
\* nothing.
C18_ProtectedBranchIsNeverPushed ==
    /\ [](\A i \in 1..Len(cmds) :
            IsPush(cmds[i]) => cmds[i][Len(cmds[i])] \notin ProtectedBranches)
    /\ [](desired_branch \notin ProtectedBranches)
    /\ [][(pc = "m_push" /\ branch \in ProtectedBranches) =>
            pc' = "atexit" /\ exitcode' > 0 /\ ~PushIssued']_vars
    /\ [][(pc = "m_name" /\ ProtectedLine(entered')) =>
            pc' = "m_name" /\ UNCHANGED <<desired_branch, cmds, repoVars>>]_vars

\* C18's case: the commit was made on MAIN, the operator having kept the
\* changes in place, and the run ended with status 1 before any push.
C18_Witness ==
    /\ pc = "atexit" /\ exitcode = 1
    /\ branch = "MAIN"
    /\ Issued(CommitCmd)
    /\ ~PushIssued

\* C18's other case: a protected name was typed and the name is asked for
\* again.
C18_ProtectedNameRejected ==
    pc = "m_name" /\ entered = BranchText("MAIN") \o <<" ">> /\ desired_branch = ""

\* C19: once the exit handler has run, whatever way the script ended, the
\* current branch is develop and the last command issued is the pull of
\* origin/develop.
C19_HandlerLeavesRepositoryOnDevelop ==
    pc = "done" =>
        /\ branch = "develop"
        /\ cmds # <<>> /\ cmds[Len(cmds)] = PullDevelopCmd

\* ------------------------------------------------------------ claims: termination
Terminal == pc \in {"returned", "atexit", "done"}

InputRead == prompts' = prompts + 1

\* C20: with an operator who eventually gives an answer that ends the
\* episode, a blocked controller reaches a terminal outcome; choice 1,
\* choice 4 and choice 2 with a successful stash end the episode in the step
\* that reads them, and so does the answer that follows the YES; every step
\* that leaves the controller blocked has read exactly one input.
C20_BlockedEpisodeTerminates ==
    /\ InBlocked ~> Terminal
    /\ [][(InBlocked /\ InBlocked') => InputRead]_vars
    /\ [][(pc = "menu" /\ InputRead
              /\ \/ choice' \in {<<"1">>, <<"4">>}
                 \/ choice' = <<"2">> /\ stash_result'.returncode = 0)
            => Terminal']_vars
    /\ [][(pc = "confirm" /\ InputRead /\ confirm' = YES) => pc' = "add_ignore"]_vars
    /\ [][(pc = "add_ignore" /\ InputRead) => Terminal']_vars

\* C20's case: an episode that took every answer the operator had: a
\* failed stash, a refused confirmation, then commit-in-place.
C20_Witness ==
    /\ pc = "returned" /\ ret = "skip_checkout"
    /\ prompts = MaxInputs
    /\ Issued(StashCmd)

\* ------------------------------------------------------------ claims: commit branch
\* The step issues `git add` / `git commit`.
AddIssuedNow == \E i \in (Len(cmds) + 1)..Len(cmds') : cmds'[i][2] = "add"

CommitIssuedNow == \E i \in (Len(cmds) + 1)..Len(cmds') : cmds'[i] = CommitCmd

\* C21: a step that stages or commits is taken on the branch selected in
\* step 3, final_branch, and that branch is not develop, main or master in
\* any spelling.
C21_CommitOnlyOnTheSelectedFeatureBranch ==
    [][(AddIssuedNow \/ CommitIssuedNow) =>
          /\ branch = final_branch
          /\ branch \notin ProtectedBranches]_vars

\* The run that refutes C21 is reached: started on develop, the checkout of
\* the existing branch `feature` was blocked, the operator kept the changes
\* in place and the commit was made on develop.
C21_CommittedOnDevelop ==
    /\ pc = "m_push"
    /\ pre.branch = "develop" /\ branch = "develop"
    /\ final_branch = "feature"
    /\ ret = "skip_checkout"
    /\ Issued(CommitCmd)

\* ------------------------------------------------------------ claims: failed release
\* The release run has ended with a non-zero status.
ReleaseFailed == pc = "r_done" /\ exitcode > 0

\* C22: when a run of the release script has ended with a non-zero status,
\* the tag is what it was before the run, in the local repository and on
\* the remote.
C22_FailedReleaseLeavesTagsAsTheyWere ==
    ReleaseFailed => TagsUntouched

\* A run that refutes C22 is reached: with --force the old tag was deleted
\* locally and on the remote, `git tag -a` failed and the run ended with
\* git's status, leaving no tag of that name anywhere.
C22_ForcedRunLostTheTag ==
    /\ ReleaseFailed
    /\ force
    /\ pre.tag_local = "old" /\ pre.tag_remote = "old"
    /\ tag_local = "none" /\ tag_remote = "none"
    /\ cmds[Len(cmds)] = TagCreateCmd

\* Another is reached without --force: the tag was created locally, its
\* push failed and the local tag stays.
C22_UnpushedTagStays ==
    /\ ReleaseFailed
    /\ ~force
    /\ pre.tag_local = "none" /\ tag_local = "new"
    /\ tag_remote = pre.tag_remote
    /\ cmds[Len(cmds)] = PushTagCmd

====
